---- MODULE Spec2Model ----
(***************************************************************************)
(* Model of the smart-sync engine (class SmartSync) of hca-ingest-tools.    *)
(* The repository carries two packagings of the engine:                     *)
(*   smart-sync/src/hca_smart_sync/sync_engine.py   ("hca_smart_sync")      *)
(*   src/hca_ingest/smart_sync/sync_engine.py       ("hca_ingest")          *)
(* The variable `variant` says which one runs.  One behaviour is a series   *)
(* of calls of SmartSync.sync on one local directory and one S3 prefix.     *)
(***************************************************************************)
EXTENDS Integers, Sequences, FiniteSets, TLC

\* ------------------------------------------------------------------ bounds
MaxSize == 2         \* local files hold MaxSize bytes, remote objects 1..MaxSize
MaxReads == 3        \* reads of the s3_client property followed on one engine
ChunkSize == 2       \* bytes calculate_sha256 reads at a time (8192 in the code)
MaxChunks == 2       \* files hold up to MaxChunks * ChunkSize + 1 bytes
MaxPrefixLen == 3    \* characters of the longest destination prefix followed

\* ---------------------------------------------------------------- universe
Variants == {"hca_smart_sync", "hca_ingest"}

\* the *.h5ad names the directory may hold
FileNames == {"file10.h5ad", "file2.h5ad"}

\* code points of a name, as Python compares str values
NameChars(f) ==
    IF f = "file10.h5ad"
    THEN <<102, 105, 108, 101, 49, 48, 46, 104, 53, 97, 100>>
    ELSE <<102, 105, 108, 101, 50, 46, 104, 53, 97, 100>>

Digests == {"d1", "d2"}
None == "None"

\* SHA-256 of the content of the local file of that name
ContentDigest(f) == IF f = "file10.h5ad" THEN "d1" ELSE "d2"

\* a file of the local directory (absent: present = FALSE)
NoLocal == [present |-> FALSE, size |-> 0, checksum |-> None]
LocalChoices(f) ==
    {NoLocal, [present |-> TRUE, size |-> MaxSize, checksum |-> ContentDigest(f)]}
LocalDirs == {d \in [FileNames -> UNION {LocalChoices(f) : f \in FileNames}] :
                \A f \in FileNames : d[f] \in LocalChoices(f)}

\* an object of the bucket under the destination prefix (absent: exists = FALSE);
\* sha256 is the custom metadata source-sha256, None when the object has none
NoObject == [exists |-> FALSE, ContentLength |-> 0, sha256 |-> None]
RemoteChoices ==
    {NoObject} \cup
    [exists : {TRUE}, ContentLength : 1..MaxSize, sha256 : Digests \cup {None}]

\* how the client signals a missing key to head_object
NotFoundSignals ==
    { [cls |-> "NoSuchKey",   code |-> "NoSuchKey"],
      [cls |-> "ClientError", code |-> "404"],
      [cls |-> "ClientError", code |-> "NoSuchKey"] }

\* lookup failures other than not-found: a client error carrying a code, and an
\* exception without a response attribute
LookupErrors ==
    { [cls |-> "ClientError", code |-> "AccessDenied"],
      [cls |-> "Exception",   code |-> None] }

\* failures of list_objects_v2 / get_bucket_location in the access check
AccessErrors ==
    { [cls |-> "NoSuchBucket", code |-> "NoSuchBucket"],
      [cls |-> "ClientError",  code |-> "AccessDenied"],
      [cls |-> "ClientError",  code |-> "Forbidden"],
      [cls |-> "ClientError",  code |-> "InternalError"],
      [cls |-> "Exception",    code |-> None] }

NoError == [cls |-> "none", code |-> None]

\* the prefix of the s3_path argument, as the pieces between and including its
\* slashes: "data" and "data/"
Prefixes == {<<"data">>, <<"data", "/">>}

\* prefix.rstrip('/')
RECURSIVE RStrip(_)
RStrip(s) ==
    IF s # <<>> /\ s[Len(s)] = "/" THEN RStrip(SubSeq(s, 1, Len(s) - 1)) ELSE s

\* s3_key = f"{prefix.rstrip('/')}/{filename}"
S3Key(p, filename) == RStrip(p) \o <<"/", filename>>

\* the keys of the bucket a call can name
ObjectKeys == {S3Key(p, f) : p \in Prefixes, f \in FileNames}

VARIABLES
    variant,          \* which packaging of the engine runs
    notFoundSignal,   \* the client's way of reporting a missing key
    local,            \* the local directory: FileNames -> LocalChoices
    prefix,           \* the prefix _parse_s3_path takes from the s3_path argument
    remote,           \* the bucket: ObjectKeys -> RemoteChoices
    pc,               \* position of the current sync call
    dry_run, force, plan_only,    \* arguments of the current call
    local_files,      \* sync: list built by _scan_local_files
    files_to_upload,  \* sync: candidate list
    i,                \* index of the loop in _compare_with_s3 / _upload_files
    uploaded_files,   \* sync / _upload_files: files copied so far
    manifest_path,    \* sync: path of the local manifest, or None
    result,           \* dict returned by sync, NoResult while none
    raised,           \* exception that left sync, NoError while none
    access_error,     \* the exception the access check of this call met
    scanned,          \* this call ran _scan_local_files
    head_log,         \* head_object calls of this call: <<[filename, answer]>>
    upload_log,       \* aws s3 cp commands run by this call: <<[filename, ok,
                      \* s3_key, content (digest of the bytes it stored), error]>>
    manifest_saved,   \* file list of the manifest this call wrote to disk
    manifest_published, \* this call copied its manifest to the bucket
    console,          \* what this call printed: set of [ev, file]
    confirm_log,      \* the answers Confirm.ask returned in this call
    cli,              \* how the command-line run around this call ended
    config,           \* self.config.aws: [profile, region]
    s3_client,        \* self._s3_client, NoClient while None
    sessions,         \* the boto3.Session(...).client(...) calls made so far
    returned,         \* what the reads of the s3_client property returned
    s3_scheme,        \* what the s3_path argument starts with
    publish_cmd,      \* the command _upload_manifest_to_s3 built in this call
    file_bytes,       \* calculate_sha256: the content of the file it is given
    file_pos,         \* calculate_sha256: bytes read so far
    sha256_hash,      \* calculate_sha256: the running hash accumulator
    hexdigest,        \* calculate_sha256: the digest returned, <<>> while none
    prev              \* summary of the preceding call

vars == <<variant, notFoundSignal, local, prefix, remote, pc, dry_run, force,
          plan_only, local_files, files_to_upload, i, uploaded_files,
          manifest_path, result, raised, access_error, scanned, head_log,
          upload_log, manifest_saved, manifest_published, console,
          confirm_log, cli, config, s3_client, sessions, returned, s3_scheme,
          publish_cmd, file_bytes, file_pos, sha256_hash, hexdigest, prev>>

\* the state of the engine's connection
aws_vars == <<config, s3_client, sessions, returned>>

\* the state of a call of ChecksumCalculator.calculate_sha256
checksum_vars == <<file_bytes, file_pos, sha256_hash, hexdigest>>

NoResult == [none |-> TRUE]
NoCli == [exited |-> FALSE, code |-> 0, status |-> None]
ManifestPath == "manifest.json"
NoPrev == [ran |-> FALSE, force |-> FALSE, complete |-> FALSE]

\* ------------------------------------------------------------- pure helpers
RECURSIVE SeqLess(_, _)
\* Python's < on two str values given as code point sequences
SeqLess(a, b) ==
    IF b = <<>> THEN FALSE
    ELSE IF a = <<>> THEN TRUE
    ELSE IF Head(a) # Head(b) THEN Head(a) < Head(b)
    ELSE SeqLess(Tail(a), Tail(b))

StrLess(f, g) == SeqLess(NameChars(f), NameChars(g))

RECURSIVE InsertByFilename(_, _)
InsertByFilename(x, s) ==
    IF s = <<>> THEN <<x>>
    ELSE IF StrLess(x.filename, Head(s).filename) THEN <<x>> \o s
    ELSE <<Head(s)>> \o InsertByFilename(x, Tail(s))

\* mutant: the list is left in the order the comparator gave it
SortedByFilenameAsGiven(s) == s

RECURSIVE SortedByFilename(_)
\* sorted(files_to_upload, key=lambda x: x['filename']) (stable)
SortedByFilename(s) ==
    IF s = <<>> THEN <<>>
    ELSE InsertByFilename(s[Len(s)], SortedByFilename(SubSeq(s, 1, Len(s) - 1)))

\* the orders in which glob may list the *.h5ad files present in the directory
Present == {f \in FileNames : local[f].present}
ScanOrders ==
    {s \in UNION {[1..n -> Present] : n \in {Cardinality(Present)}} :
        \A j, k \in DOMAIN s : j # k => s[j] # s[k]}

LocalFileRecord(f) ==
    [filename |-> f, size |-> local[f].size, checksum |-> local[f].checksum]

Candidate(local_file, reason) ==
    [filename |-> local_file.filename, size |-> local_file.size,
     checksum |-> local_file.checksum, reason |-> reason]

Filenames(s) == [k \in DOMAIN s |-> s[k].filename]

\* ------------------------------------------------- ChecksumCalculator
\* the values a byte of a file takes (b"A", b"B")
Bytes == {65, 66}

\* the contents of the files given to calculate_sha256
FileContents == UNION {[1..n -> Bytes] : n \in 0..(MaxChunks * ChunkSize + 1)}

\* the hash accumulator keeps HashModulus values
HashModulus == 256

\* hashlib.sha256(): the accumulator before any byte, as the value folded so
\* far and the count of bytes taken
NewHash == [h |-> 0, n |-> 0]

\* accumulator.update(data): the bytes of data are folded in one after the other
RECURSIVE Update(_, _)
Update(st, data) ==
    IF data = <<>> THEN st
    ELSE Update([h |-> (st.h * 31 + Head(data)) % HashModulus, n |-> st.n + 1],
                Tail(data))

\* accumulator.hexdigest(): the two hex digits of the value padded by the length
HexDigest(st) ==
    LET v == (st.h + st.n) % HashModulus IN <<v \div 16, v % 16>>

\* hashlib.sha256(data).hexdigest(): the digest of a whole buffer in one pass
Sha256(data) == HexDigest(Update(NewHash, data))

\* mutant: a read that comes back short is taken for the end of the file
ReadChunkFullOnly(data, pos) ==
    IF pos + ChunkSize <= Len(data) THEN SubSeq(data, pos + 1, pos + ChunkSize)
                                    ELSE <<>>

\* f.read(chunk_size) at offset pos: up to ChunkSize bytes, none at the end
ReadChunk(data, pos) ==
    SubSeq(data, pos + 1,
           IF pos + ChunkSize <= Len(data) THEN pos + ChunkSize ELSE Len(data))

\* no call of calculate_sha256 is followed
NoChecksumCall ==
    /\ file_bytes = <<>>
    /\ file_pos = 0
    /\ sha256_hash = NewHash
    /\ hexdigest = <<>>

\* no manifest copy command was built
NoCommand == [args |-> <<>>, dest |-> <<>>, options |-> <<>>]

\* ------------------------------------------------- the s3_client property
\* the values config.aws.profile and config.aws.region take
Profiles == {"test-profile", "other-profile"}
Regions == {"us-east-1", "eu-west-1"}
Configs == [profile : Profiles, region : Regions]

\* a profile name the credentials file does not hold, and the error
\* boto3.Session(profile_name=...) raises for it
UnknownProfile == "no-such-profile"
ProfileNotFound == [cls |-> "ProfileNotFound", code |-> None]

\* boto3.Session(profile_name=cfg.profile) raises; a profile of None names the
\* default credentials
SessionRaises(cfg) == cfg.profile = UnknownProfile

\* self._s3_client = None
NoClient == [id |-> 0, profile |-> None, region |-> None]

\* the n-th client made: boto3.Session(profile_name=cfg.profile)
\*                          .client('s3', region_name=cfg.region)
NewClient(n, cfg) == [id |-> n, profile |-> cfg.profile, region |-> cfg.region]

\* mutant: the property makes a client at every read
S3ClientPropertyUncached(cached, made, cfg) ==
    [client   |-> NewClient(Len(made) + 1, cfg),
     sessions |-> Append(made, cfg)]

\* a read of the property s3_client: the client it returns, which it also
\* keeps in _s3_client, and the sessions made once it returned
S3ClientProperty(cached, made, cfg) ==
    IF cached = NoClient
    THEN [client   |-> NewClient(Len(made) + 1, cfg),
          sessions |-> Append(made, cfg)]
    ELSE [client |-> cached, sessions |-> made]

\* the engine's connection after a step of sync that read self.s3_client
ReadsS3Client ==
    /\ s3_client' = S3ClientProperty(s3_client, sessions, config).client
    /\ sessions' = S3ClientProperty(s3_client, sessions, config).sessions
    /\ UNCHANGED <<config, returned>>

\* ------------------------------------------------- _validate_s3_access
\* mutant: the result of the access check is ignored
ValidateS3AccessAlways(o) == TRUE

\* mutant: a client error with an unlisted code lets the call go on
ValidateS3AccessLenient(o) ==
    IF o = NoError THEN TRUE
    ELSE IF o.cls = "NoSuchBucket" THEN FALSE
    ELSE IF o.cls = "ClientError"
         THEN (IF o.code = "AccessDenied" THEN FALSE
               ELSE IF o.code = "Forbidden" THEN FALSE
               ELSE TRUE)
    ELSE FALSE

\* o is NoError when list_objects_v2 and get_bucket_location both answer, else
\* the exception one of them raised; every except branch returns False
ValidateS3Access(o) ==
    IF o = NoError THEN TRUE
    ELSE IF o.cls = "NoSuchBucket" THEN FALSE
    ELSE IF o.cls = "ClientError"
         THEN (IF o.code = "AccessDenied" THEN FALSE
               ELSE IF o.code = "Forbidden" THEN FALSE
               ELSE FALSE)
    ELSE FALSE

\* what the s3_path argument may start with
Schemes == {"s3://", "https://"}

\* _parse_s3_path: raise ValueError("S3 path must start with s3://")
PathError == [cls |-> "ValueError", code |-> None]

\* what the try block of _validate_s3_access can meet once the client exists:
\* the ValueError of _parse_s3_path, else what the list and locate calls answer
AccessOutcomes(scheme) ==
    IF scheme # "s3://" THEN {PathError} ELSE {NoError} \cup AccessErrors

\* what hca_ingest prints for a failed access check (hca_smart_sync prints nothing)
AccessMessages(v, o) ==
    IF v = "hca_smart_sync" \/ o = NoError THEN {}
    ELSE {[ev |-> "access_error", file |-> o.cls],
          [ev |-> "access_validation_failed", file |-> None]}

\* ------------------------------------------------- _compare_with_s3
\* the answers head_object may give for the key of file f
Response(obj) ==
    [ok |-> TRUE, ContentLength |-> obj.ContentLength, sha256 |-> obj.sha256,
     error |-> NoError]
Failure(e) ==
    [ok |-> FALSE, ContentLength |-> 0, sha256 |-> None, error |-> e]
HeadObject(s3_key) ==
    (IF remote[s3_key].exists THEN {Response(remote[s3_key])}
                         ELSE {Failure(notFoundSignal)})
    \cup {Failure(e) : e \in LookupErrors}

\* response.get('Metadata', {}).get('source-sha256')
S3Checksum(response) == response.sha256

\* mutant: the stored digest is compared with the wrong field of the record
IsIdenticalWrongKey(response, local_file) ==
    /\ S3Checksum(response) # None
    /\ S3Checksum(response) = local_file.filename

\* mutant: an object without the metadata passes for identical
IsIdenticalOrMissing(response, local_file) ==
    \/ S3Checksum(response) = None
    \/ S3Checksum(response) = local_file.checksum

\* if s3_checksum and s3_checksum == local_file['checksum']: continue
IsIdentical(response, local_file) ==
    /\ S3Checksum(response) # None
    /\ S3Checksum(response) = local_file.checksum

\* except self.s3_client.exceptions.NoSuchKey
CaughtAsNoSuchKey(e) == e.cls = "NoSuchKey"

\* getattr(e, 'response', {}).get('Error', {}).get('Code', 'Unknown')
ErrorCode(e) == IF e.code = None THEN "Unknown" ELSE e.code

NotFoundCodes == {"NoSuchKey", "404"}

\* mutant: the except Exception branch appends nothing at all
CompareSmartSyncDropsErrors(local_file, o) ==
    IF o.ok
    THEN IF IsIdentical(o, local_file) THEN <<>>
         ELSE <<Candidate(local_file, "changed")>>
    ELSE IF CaughtAsNoSuchKey(o.error) THEN <<Candidate(local_file, "new")>>
    ELSE <<>>

\* the entries one loop iteration appends for local_file when head_object
\* answered o, in hca_smart_sync
CompareSmartSync(local_file, o) ==
    IF o.ok
    THEN IF IsIdentical(o, local_file) THEN <<>>
         ELSE <<Candidate(local_file, "changed")>>
    ELSE IF CaughtAsNoSuchKey(o.error) THEN <<Candidate(local_file, "new")>>
    ELSE IF ErrorCode(o.error) \notin NotFoundCodes
         THEN <<Candidate(local_file, "new")>>
         ELSE <<>>

\* the same in hca_ingest: the append sits outside the if
CompareIngest(local_file, o) ==
    IF o.ok
    THEN IF IsIdentical(o, local_file) THEN <<>>
         ELSE <<Candidate(local_file, "changed")>>
    ELSE IF CaughtAsNoSuchKey(o.error) THEN <<Candidate(local_file, "new")>>
    ELSE <<Candidate(local_file, "new")>>

\* the warning the except Exception branch prints
WarningSmartSync(s3_key, o) == {}
WarningIngest(s3_key, o) ==
    IF ~o.ok /\ ~CaughtAsNoSuchKey(o.error)
       /\ ErrorCode(o.error) \notin NotFoundCodes
    THEN {[ev |-> "lookup_warning", file |-> s3_key]}
    ELSE {}

CompareOne(v, local_file, o) ==
    IF v = "hca_smart_sync" THEN CompareSmartSync(local_file, o)
                            ELSE CompareIngest(local_file, o)
CompareWarning(v, s3_key, o) ==
    IF v = "hca_smart_sync" THEN WarningSmartSync(s3_key, o)
                            ELSE WarningIngest(s3_key, o)

\* mutant: the forced branch tags the file as new
ForcedEntryAsNew(local_file) == <<Candidate(local_file, "new")>>

\* if force: append forced; continue  -- before any remote call
ForcedEntry(local_file) == <<Candidate(local_file, "forced")>>

\* a lookup failure other than not-found
IsLookupError(o) == ~o.ok /\ o.error \in LookupErrors

\* ------------------------------------------------- results of sync
AccessDeniedResult ==
    [files_uploaded |-> 0, manifest_path |-> None, error |-> "access_denied"]

NoFilesResult(v) ==
    IF v = "hca_smart_sync"
    THEN [files_uploaded |-> 0, files_to_upload |-> <<>>, manifest_path |-> None,
          no_files_found |-> TRUE]
    ELSE [files_uploaded |-> 0, manifest_path |-> None]

UpToDateResult(v, lfs) ==
    IF v = "hca_smart_sync"
    THEN [files_uploaded |-> 0, files_to_upload |-> <<>>, manifest_path |-> None,
          local_files |-> lfs, all_up_to_date |-> TRUE]
    ELSE [files_uploaded |-> 0, manifest_path |-> None]

DryRunResult(plan) ==
    [files_uploaded |-> 0, files_to_upload |-> plan, manifest_path |-> None,
     dry_run |-> TRUE]

\* mutant: the plan-only return counts the planned files as uploaded
PlanOnlyResultCountsPlan(plan) ==
    [files_uploaded |-> Len(plan), files_to_upload |-> plan,
     manifest_path |-> None, plan_only |-> TRUE]

\* hca_smart_sync: if plan_only: return {...} (after the dry-run return)
PlanOnlyResult(plan) ==
    [files_uploaded |-> 0, files_to_upload |-> plan, manifest_path |-> None,
     plan_only |-> TRUE]

CancelledResult ==
    [files_uploaded |-> 0, manifest_path |-> None, cancelled |-> TRUE]

FinalResult(v, plan, uploaded, path) ==
    IF v = "hca_smart_sync"
    THEN [files_uploaded |-> Len(uploaded), files_to_upload |-> plan,
          manifest_path |-> path, files |-> Filenames(uploaded)]
    ELSE [files_uploaded |-> Len(uploaded), manifest_path |-> path,
          files |-> Filenames(uploaded)]

\* d.get(k): the value under key k, None when the dict has no such key
Get(d, k) == IF k \in DOMAIN d THEN d[k] ELSE None

\* if d.get(k): the dict has key k and its value is True
Flag(d, k) == k \in DOMAIN d /\ d[k] = TRUE

\* ------------------------------------------------- the sync call, step by step
Init ==
    /\ variant \in Variants
    /\ notFoundSignal \in NotFoundSignals
    /\ local \in LocalDirs
    /\ prefix \in Prefixes
    /\ remote \in [ObjectKeys -> RemoteChoices]
    /\ pc = "idle"
    /\ dry_run = FALSE /\ force = FALSE /\ plan_only = FALSE
    /\ local_files = <<>>
    /\ files_to_upload = <<>>
    /\ i = 1
    /\ uploaded_files = <<>>
    /\ manifest_path = None
    /\ result = NoResult
    /\ raised = NoError
    /\ access_error = NoError
    /\ scanned = FALSE
    /\ head_log = <<>>
    /\ upload_log = <<>>
    /\ manifest_saved = <<>>
    /\ manifest_published = FALSE
    /\ console = {}
    /\ confirm_log = <<>>
    /\ cli = NoCli
    /\ config = [profile |-> "test-profile", region |-> "us-east-1"]
    /\ s3_client = NoClient
    /\ sessions = <<>>
    /\ returned = <<>>
    /\ s3_scheme = "s3://"
    /\ publish_cmd = NoCommand
    /\ NoChecksumCall
    /\ prev = NoPrev

Ended == pc \in {"done", "raised"}

\* every candidate of the call was copied by an aws s3 cp that succeeded
UploadsComplete ==
    /\ files_to_upload # <<>>
    /\ Len(upload_log) = Len(files_to_upload)
    /\ \A k \in DOMAIN upload_log : upload_log[k].ok

\* the candidates a failed upload left behind: the one whose upload failed and
\* those planned after it; none when no upload failed
Pending ==
    IF upload_log # <<>> /\ ~upload_log[Len(upload_log)].ok
    THEN {files_to_upload[k].filename : k \in Len(upload_log)..Len(files_to_upload)}
    ELSE {}

Summary == [ran |-> TRUE, force |-> force, complete |-> UploadsComplete]

\* the summary of a call that a failed upload aborted
AbortSummary ==
    [ran |-> TRUE, force |-> force, complete |-> FALSE, pending |-> Pending]

\* entry of SmartSync.sync (hca_ingest has no plan_only parameter): nothing of
\* an earlier call is kept but the directory and the bucket
StartCall(d, f, p) ==
    /\ variant = "hca_ingest" => p = FALSE
    /\ dry_run' = d /\ force' = f /\ plan_only' = p
    /\ pc' = "validate"
    /\ local_files' = <<>> /\ files_to_upload' = <<>> /\ i' = 1
    /\ uploaded_files' = <<>> /\ manifest_path' = None
    /\ result' = NoResult /\ raised' = NoError /\ access_error' = NoError
    /\ scanned' = FALSE /\ head_log' = <<>> /\ upload_log' = <<>>
    /\ manifest_saved' = <<>> /\ manifest_published' = FALSE /\ console' = {}
    /\ confirm_log' = <<>>
    /\ cli' = NoCli
    /\ publish_cmd' = NoCommand
    /\ UNCHANGED <<variant, notFoundSignal, local, prefix, remote, aws_vars,
                   checksum_vars, s3_scheme>>

\* the first call of sync
Sync(d, f, p) ==
    /\ pc = "idle"
    /\ StartCall(d, f, p)
    /\ UNCHANGED prev

\* sync is called again once a call has ended, on the directory and the bucket
\* as that call left them
Rerun(d, f, p) ==
    /\ Ended
    /\ StartCall(d, f, p)
    /\ prev' = Summary

\* sync is called again after a call that a failed upload aborted, on the
\* directory and the bucket as that call left them
Resume(d, f, p) ==
    /\ pc = "raised"
    /\ Pending # {}
    /\ StartCall(d, f, p)
    /\ prev' = AbortSummary

Return(r) == pc' = "done" /\ result' = r

\* Step 0: if not self._validate_s3_access(s3_path): return access_denied.
\* The try block reads self.s3_client, and so does the first except clause
\* (except self.s3_client.exceptions.NoSuchBucket) when an exception is matched:
\* when the session cannot be made, the error of the property leaves the try
\* block, is raised again while the except clause is evaluated, and leaves
\* _validate_s3_access and sync
ValidateAccess ==
    /\ pc = "validate"
    /\ IF SessionRaises(config)
       THEN /\ raised' = ProfileNotFound
            /\ pc' = "raised"
            /\ UNCHANGED <<access_error, console, result, aws_vars>>
       ELSE /\ \E o \in AccessOutcomes(s3_scheme) :
                 /\ access_error' = o
                 /\ console' = console \cup AccessMessages(variant, o)
                 /\ IF ValidateS3Access(o)
                    THEN pc' = "scan" /\ UNCHANGED result
                    ELSE Return(AccessDeniedResult)
            /\ ReadsS3Client
            /\ UNCHANGED raised
    /\ UNCHANGED <<checksum_vars, s3_scheme, publish_cmd,
                   variant, notFoundSignal, local, prefix, remote, dry_run, force,
                   plan_only, local_files, files_to_upload, i, uploaded_files,
                   manifest_path, scanned, head_log, upload_log,
                   manifest_saved, manifest_published, confirm_log, cli, prev>>

\* local_files = self._scan_local_files(local_path); hca_ingest returns here
\* when the list is empty, hca_smart_sync compares first
ScanLocalFiles ==
    /\ pc = "scan"
    /\ \E order \in ScanOrders :
         /\ local_files' = [k \in DOMAIN order |-> LocalFileRecord(order[k])]
         /\ IF variant = "hca_ingest" /\ order = <<>>
            THEN /\ Return(NoFilesResult(variant))
                 /\ console' = console \cup {[ev |-> "no_files", file |-> None]}
            ELSE pc' = "compare" /\ UNCHANGED <<result, console>>
    /\ scanned' = TRUE
    /\ i' = 1
    /\ UNCHANGED <<checksum_vars, s3_scheme, publish_cmd,
                   aws_vars, cli, confirm_log, access_error,
                   variant, notFoundSignal, local, prefix, remote, dry_run, force,
                   plan_only, files_to_upload, uploaded_files, manifest_path,
                   raised, head_log, upload_log, manifest_saved,
                   manifest_published, prev>>

\* one iteration of the for loop of _compare_with_s3
CompareStep ==
    /\ pc = "compare"
    /\ i <= Len(local_files)
    /\ LET local_file == local_files[i] IN
       IF force
       THEN /\ files_to_upload' = files_to_upload \o ForcedEntry(local_file)
            /\ UNCHANGED <<head_log, console, aws_vars>>
       ELSE \E o \in HeadObject(S3Key(prefix, local_file.filename)) :
              /\ head_log' = Append(head_log,
                                 [filename |-> local_file.filename, answer |-> o])
              /\ files_to_upload' =
                     files_to_upload \o CompareOne(variant, local_file, o)
              /\ console' = console \cup
                     CompareWarning(variant, S3Key(prefix, local_file.filename), o)
              /\ ReadsS3Client
    /\ i' = i + 1
    /\ UNCHANGED <<checksum_vars, s3_scheme, publish_cmd,
                   cli, confirm_log, access_error,
                   variant, notFoundSignal, local, prefix, remote, pc, dry_run,
                   force, plan_only, local_files, uploaded_files, manifest_path,
                   result, raised, scanned, upload_log, manifest_saved,
                   manifest_published, prev>>

\* mutant: a forced call is asked too
AsksConfirmationUnlessDryRun(dry, f) == ~dry

\* hca_ingest Step 4.5: if not dry_run and not force: Confirm.ask
AsksConfirmation(dry, f) == ~dry /\ ~f

\* after the comparison: the early returns, the sort and the choice of the next
\* stage (hca_smart_sync lines 78-109, hca_ingest lines 100-116)
Plan ==
    /\ pc = "compare"
    /\ i > Len(local_files)
    /\ LET plan == SortedByFilename(files_to_upload) IN
       IF variant = "hca_smart_sync"
       THEN IF local_files = <<>>
            THEN Return(NoFilesResult(variant)) /\ UNCHANGED <<files_to_upload, console>>
            ELSE IF files_to_upload = <<>>
            THEN /\ Return(UpToDateResult(variant, local_files))
                 /\ UNCHANGED <<files_to_upload, console>>
            ELSE /\ files_to_upload' = plan
                 /\ UNCHANGED console
                 /\ IF dry_run THEN Return(DryRunResult(plan))
                    ELSE IF plan_only THEN Return(PlanOnlyResult(plan))
                    ELSE pc' = "manifest" /\ UNCHANGED result
       ELSE IF files_to_upload = <<>>
            THEN /\ Return(UpToDateResult(variant, local_files))
                 /\ console' = console \cup {[ev |-> "all_up_to_date", file |-> None]}
                 /\ UNCHANGED files_to_upload
            ELSE /\ files_to_upload' = plan
                 /\ console' = console \cup {[ev |-> "upload_plan", file |-> None]}
                 /\ pc' = IF AsksConfirmation(dry_run, force) THEN "confirm"
                                                               ELSE "manifest"
                 /\ UNCHANGED result
    /\ i' = 1
    /\ UNCHANGED <<checksum_vars, s3_scheme, publish_cmd,
                   aws_vars, cli, confirm_log, access_error,
                   variant, notFoundSignal, local, prefix, remote, dry_run, force,
                   plan_only, local_files, uploaded_files, manifest_path, raised,
                   scanned, head_log, upload_log, manifest_saved,
                   manifest_published, prev>>

\* mutant: the answer is ignored
ProceedsWhateverAnswer(answer) == TRUE

\* if not Confirm.ask(...): return cancelled -- the call goes on when the
\* answer is yes
Proceeds(answer) == answer

\* hca_ingest: if not Confirm.ask("Proceed with upload?"): return cancelled
Confirm ==
    /\ pc = "confirm"
    /\ \E answer \in BOOLEAN :
         /\ confirm_log' = Append(confirm_log, answer)
         /\ IF Proceeds(answer) THEN pc' = "manifest" /\ UNCHANGED result
                                ELSE Return(CancelledResult)
    /\ console' = console \cup {[ev |-> "confirm_asked", file |-> None]}
    /\ UNCHANGED <<checksum_vars, s3_scheme, publish_cmd,
                   aws_vars, cli, access_error, variant, notFoundSignal, local, prefix,
                   remote, dry_run, force, plan_only, local_files,
                   files_to_upload, i, uploaded_files, manifest_path, raised,
                   scanned, head_log, upload_log, manifest_saved,
                   manifest_published, prev>>

\* mutant: the condition of Step 4.5 is inverted
SavesManifestInDryRunOnly(dry) == dry

\* mutant: Step 4.5 lost its condition
SavesManifestAlways(dry) == TRUE

\* manifest_path = None; if not dry_run: manifest_path = self._generate_and_...
SavesManifest(dry) == ~dry

\* mutant: the manifest is built from every local file of the scan
ManifestFilesAllLocal(files) == Filenames(local_files)

\* mutant: the manifest is built from the files uploaded so far
ManifestFilesUploaded(files) == Filenames(uploaded_files)

\* files=[f["local_path"] for f in files_to_upload]: the files the manifest lists
ManifestFiles(files) == Filenames(files)

\* a code point of '0'..'9'
IsDigit(c) == c \in 48..57

\* the digits a begins with
RECURSIVE DigitRun(_)
DigitRun(a) ==
    IF a # <<>> /\ IsDigit(Head(a)) THEN <<Head(a)>> \o DigitRun(Tail(a))
    ELSE <<>>

\* int() of a run of digits
RECURSIVE IntOf(_)
IntOf(ds) ==
    IF ds = <<>> THEN 0
    ELSE 10 * IntOf(SubSeq(ds, 1, Len(ds) - 1)) + (ds[Len(ds)] - 48)

\* natural order of two names given as code points: runs of digits compare as
\* integers, everything else code point by code point
RECURSIVE NaturalSeqLess(_, _)
NaturalSeqLess(a, b) ==
    IF b = <<>> THEN FALSE
    ELSE IF a = <<>> THEN TRUE
    ELSE IF IsDigit(Head(a)) /\ IsDigit(Head(b))
         THEN LET da == DigitRun(a)
                  db == DigitRun(b)
              IN IF IntOf(da) # IntOf(db) THEN IntOf(da) < IntOf(db)
                 ELSE NaturalSeqLess(SubSeq(a, Len(da) + 1, Len(a)),
                                     SubSeq(b, Len(db) + 1, Len(b)))
    ELSE IF Head(a) # Head(b) THEN Head(a) < Head(b)
    ELSE NaturalSeqLess(Tail(a), Tail(b))

NaturalLess(f, g) == NaturalSeqLess(NameChars(f), NameChars(g))

RECURSIVE InsertNatural(_, _)
InsertNatural(x, s) ==
    IF s = <<>> THEN <<x>>
    ELSE IF NaturalLess(x, Head(s)) THEN <<x>> \o s
    ELSE <<Head(s)>> \o InsertNatural(x, Tail(s))

RECURSIVE NaturalSorted(_)
NaturalSorted(s) ==
    IF s = <<>> THEN <<>>
    ELSE InsertNatural(s[Len(s)], NaturalSorted(SubSeq(s, 1, Len(s) - 1)))

\* mutant: the entries keep the order of the input list
ManifestEntriesAsGiven(files) == files

\* the filenames of the file entries generate_manifest builds for files: one
\* entry per input, in natural order of filename
ManifestEntries(files) == NaturalSorted(files)

\* mutant: a build that failed leaves the entries built so far on disk
ManifestWrittenPartial(outcome, files) ==
    IF outcome = "saved" THEN ManifestEntries(ManifestFiles(files))
    ELSE SubSeq(ManifestEntries(ManifestFiles(files)), 1, 1)

\* the file entries on disk once _generate_and_save_manifest_locally is left:
\* save_manifest is reached only when generate_manifest returned
ManifestWritten(outcome, files) ==
    IF outcome = "saved" THEN ManifestEntries(ManifestFiles(files))
    ELSE <<>>

\* how _generate_and_save_manifest_locally may end: the manifest is generated
\* and save_manifest has written it; or generate_manifest raises, and
\* save_manifest is not called
ManifestOutcomes == {"saved", "generate_raises"}

\* the exception generate_manifest lets out, which nothing in sync catches
ManifestError == [cls |-> "OSError", code |-> None]

\* Step 4.5 and the entry of Step 5: the manifest is saved unless dry_run; in a
\* dry run hca_ingest goes on with uploaded_files = files_to_upload
GenerateManifest ==
    /\ pc = "manifest"
    /\ \E outcome \in (IF SavesManifest(dry_run) THEN ManifestOutcomes
                                                ELSE {"skipped"}) :
         IF outcome = "generate_raises"
         THEN /\ raised' = ManifestError
              /\ pc' = "raised"
              /\ manifest_saved' = ManifestWritten(outcome, files_to_upload)
              /\ UNCHANGED <<manifest_path, uploaded_files, i>>
         ELSE /\ IF outcome = "saved"
                 THEN /\ manifest_saved' =
                             ManifestWritten(outcome, files_to_upload)
                      /\ manifest_path' = ManifestPath
                 ELSE UNCHANGED <<manifest_saved, manifest_path>>
              /\ IF ~dry_run
                 THEN /\ i' = 1
                      /\ UNCHANGED uploaded_files
                 ELSE /\ uploaded_files' = files_to_upload
                      /\ i' = Len(files_to_upload) + 1
              /\ pc' = "upload"
              /\ UNCHANGED raised
    /\ UNCHANGED <<checksum_vars, s3_scheme, publish_cmd,
                   aws_vars, cli, confirm_log, access_error,
                   variant, notFoundSignal, local, prefix, remote, dry_run, force,
                   plan_only, local_files, files_to_upload, result,
                   scanned, head_log, upload_log, manifest_published, console,
                   prev>>

\* ------------------------------------------------- _upload_files
\* how one aws s3 cp may end: the object is stored; the command fails and leaves
\* the bucket alone; the command dies mid-stream and leaves a shorter object
\* that already carries the metadata
CpOutcomes(file_info) ==
    {"ok", "fail"} \cup (IF file_info.size > 1 THEN {"interrupted"} ELSE {})

\* mutant: the copy command carries no --metadata option
StoredObjectNoMetadata(file_info) ==
    [exists |-> TRUE, ContentLength |-> local[file_info.filename].size,
     sha256 |-> None]

\* the object aws s3 cp stores: the file's content with
\* --metadata source-sha256=<checksum of the scan>
StoredObject(file_info) ==
    [exists |-> TRUE, ContentLength |-> local[file_info.filename].size,
     sha256 |-> file_info.checksum]

TruncatedObject(file_info) ==
    [exists |-> TRUE, ContentLength |-> local[file_info.filename].size - 1,
     sha256 |-> file_info.checksum]

\* what a failed aws s3 cp leaves behind: its exit status and the text it wrote
\* to stderr
CpErrors == {[returncode |-> 1, stderr |-> "fatal error"],
             [returncode |-> 255, stderr |-> ""]}
NoCpError == [returncode |-> 0, stderr |-> ""]

\* mutant: the upload forgets to strip the prefix
UploadS3KeyUnstripped(p, filename) == p \o <<"/", filename>>

\* s3_key = f"{prefix.rstrip('/')}/{file_info['filename']}", the key inside s3_url
UploadS3Key(p, filename) == RStrip(p) \o <<"/", filename>>

\* if self.config.aws.profile: cmd.extend(["--profile", self.config.aws.profile])
ProfileOption(cfg) ==
    IF cfg.profile # None THEN <<"--profile", cfg.profile>> ELSE <<>>

\* the aws s3 cp command line built for file_info
UploadCommand(file_info) ==
    <<"aws", "s3", "cp", file_info.filename,
      UploadS3Key(prefix, file_info.filename),
      "--metadata", file_info.checksum>> \o ProfileOption(config)

\* the exception _upload_files lets out when the command failed with e.
\* hca_smart_sync runs the command with capture_output and raises a new
\* CalledProcessError whose stderr is the enriched message; hca_ingest lets the
\* command write to the terminal and re-raises the original, which holds the
\* exit status and the command and no stderr text
UploadError(v, file_info, e) ==
    IF v = "hca_smart_sync"
    THEN [cls |-> "CalledProcessError", code |-> None,
          returncode |-> e.returncode, cmd |-> UploadCommand(file_info),
          stderr |-> e.stderr,
          detail |->
             {[part |-> "filename", text |-> file_info.filename]}
             \cup (IF e.stderr # ""
                   THEN {[part |-> "stderr", text |-> e.stderr]} ELSE {})
             \cup {[part |-> "command", text |-> UploadCommand(file_info)],
                   [part |-> "exit_code", text |-> e.returncode]}]
    ELSE [cls |-> "CalledProcessError", code |-> None,
          returncode |-> e.returncode, cmd |-> UploadCommand(file_info),
          stderr |-> None,
          detail |->
             {[part |-> "command", text |-> UploadCommand(file_info)],
              [part |-> "exit_code", text |-> e.returncode]}]

\* mutant: the except branch swallows the failure and the loop goes on
ContinuesAfterAny(outcome) == TRUE

\* mutant: a command that failed and stored nothing is passed over
ContinuesAfterCleanFailure(outcome) == outcome # "interrupted"

\* the loop goes on after an upload that succeeded and only then
ContinuesAfter(outcome) == outcome = "ok"

\* one iteration of the for loop of _upload_files
UploadStep ==
    /\ pc = "upload"
    /\ i <= Len(files_to_upload)
    /\ LET file_info == files_to_upload[i] IN
       \E outcome \in CpOutcomes(file_info) :
       \E e \in (IF outcome = "ok" THEN {NoCpError} ELSE CpErrors) :
         /\ upload_log' = Append(upload_log,
                [filename |-> file_info.filename, ok |-> outcome = "ok",
                 s3_key |-> UploadS3Key(prefix, file_info.filename),
                 content |-> IF outcome = "ok"
                             THEN local[file_info.filename].checksum ELSE None,
                 error |-> e])
         /\ remote' = CASE outcome = "ok" ->
                             [remote EXCEPT ![UploadS3Key(prefix, file_info.filename)] =
                                                StoredObject(file_info)]
                        [] outcome = "interrupted" ->
                             [remote EXCEPT ![UploadS3Key(prefix, file_info.filename)] =
                                                TruncatedObject(file_info)]
                        [] OTHER -> remote
         /\ IF ContinuesAfter(outcome)
            THEN /\ uploaded_files' = IF outcome = "ok"
                                      THEN Append(uploaded_files, file_info)
                                      ELSE uploaded_files
                 /\ console' = console \cup
                        (IF outcome = "ok"
                         THEN {[ev |-> "uploaded", file |-> file_info.filename]}
                         ELSE {[ev |-> "upload_failed", file |-> file_info.filename]})
                 /\ i' = i + 1
                 /\ UNCHANGED <<pc, raised>>
            ELSE /\ console' = console \cup
                        {[ev |-> "upload_failed", file |-> file_info.filename]}
                 /\ raised' = UploadError(variant, file_info, e)
                 /\ pc' = "raised"
                 /\ UNCHANGED <<uploaded_files, i>>
    /\ UNCHANGED <<checksum_vars, s3_scheme, publish_cmd,
                   aws_vars, cli, confirm_log, access_error,
                   variant, notFoundSignal, local, prefix, dry_run, force,
                   plan_only, local_files, files_to_upload, manifest_path,
                   result, scanned, head_log, manifest_saved,
                   manifest_published, prev>>

\* mutant: Step 6 lost its dry_run and manifest_path conditions
PublishesManifestInDryRun == uploaded_files # <<>>

\* if uploaded_files and not dry_run and manifest_path: _upload_manifest_to_s3
PublishesManifest == uploaded_files # <<>> /\ ~dry_run /\ manifest_path # None

\* ------------------------------------------------- _upload_manifest_to_s3
\* the bucket _parse_s3_path takes from the s3_path argument
Bucket == "bucket"

\* the index of the first "/" of s, 0 when it has none
RECURSIVE Find(_, _)
Find(s, k) ==
    IF k > Len(s) THEN 0 ELSE IF s[k] = "/" THEN k ELSE Find(s, k + 1)

\* s.split('/'): the pieces of s between its slashes, [''] for the empty string
RECURSIVE Split(_)
Split(s) ==
    IF Find(s, 1) = 0 THEN <<s>>
    ELSE <<SubSeq(s, 1, Find(s, 1) - 1)>>
             \o Split(SubSeq(s, Find(s, 1) + 1, Len(s)))

\* "/".join(parts)
RECURSIVE Join(_)
Join(parts) ==
    IF parts = <<>> THEN <<>>
    ELSE IF Len(parts) = 1 THEN parts[1]
    ELSE parts[1] \o <<"/">> \o Join(Tail(parts))

\* mutant: the last folder is kept and manifests is put under it
ManifestPrefixUnderLast(p) == Join(Split(RStrip(p)) \o << <<"manifests">> >>)

\* manifest_prefix = "/".join(prefix.rstrip('/').split('/')[:-1] + ['manifests'])
ManifestPrefix(p) ==
    Join(SubSeq(Split(RStrip(p)), 1, Len(Split(RStrip(p))) - 1)
             \o << <<"manifests">> >>)

\* the characters of the manifest path, str(local_path / manifest_filename)
PathChars(path) == <<"local", "/", "dir", "/", path>>

\* manifest_s3_url =
\*     f"s3://{bucket}/{manifest_prefix}/{manifest_path.split('/')[-1]}"
ManifestS3Url(path, p) ==
    <<"s3://", Bucket, "/">> \o ManifestPrefix(p) \o <<"/">>
        \o Split(PathChars(path))[Len(Split(PathChars(path)))]

\* cmd = ["aws", "s3", "cp", manifest_path, manifest_s3_url,
\*        "--profile", self.config.aws.profile]
PublishCommand(path, p, cfg) ==
    [args |-> <<"aws", "s3", "cp", path>>, dest |-> ManifestS3Url(path, p),
     options |-> <<"--profile", cfg.profile>>]

\* subprocess.run takes the command: every argument is a string
RunsCommand(cmd) == \A k \in DOMAIN cmd.options : cmd.options[k] # None

\* what subprocess.run raises for an argument that is None; no except clause
\* of _upload_manifest_to_s3 or sync catches it
ArgumentError == [cls |-> "TypeError", code |-> None]

\* the exception _upload_manifest_to_s3 lets out when its aws s3 cp fails
PublishError(v) ==
    IF v = "hca_smart_sync" THEN [cls |-> "RuntimeError", code |-> None]
                            ELSE [cls |-> "CalledProcessError", code |-> None]

\* Step 6 and the final return, after the upload loop ended
PublishManifest ==
    /\ pc = "upload"
    /\ i > Len(files_to_upload)
    /\ PublishesManifest
    /\ publish_cmd' = PublishCommand(manifest_path, prefix, config)
    /\ \E ok \in BOOLEAN :
         IF ~RunsCommand(publish_cmd')
         THEN /\ raised' = ArgumentError
              /\ pc' = "raised"
              /\ UNCHANGED <<manifest_published, result, console>>
         ELSE IF ok
         THEN /\ manifest_published' = TRUE
              /\ Return(FinalResult(variant, files_to_upload, uploaded_files,
                                    manifest_path))
              /\ console' = console \cup
                     (IF variant = "hca_ingest"
                      THEN {[ev |-> "manifest_uploaded", file |-> None]} ELSE {})
              /\ UNCHANGED raised
         ELSE /\ console' = console \cup {[ev |-> "manifest_failed", file |-> None]}
              /\ raised' = PublishError(variant)
              /\ pc' = "raised"
              /\ UNCHANGED <<manifest_published, result>>
    /\ UNCHANGED <<checksum_vars, s3_scheme,
                   aws_vars, cli, confirm_log, access_error,
                   variant, notFoundSignal, local, prefix, remote, dry_run, force,
                   plan_only, local_files, files_to_upload, i, uploaded_files,
                   manifest_path, scanned, head_log, upload_log, manifest_saved,
                   prev>>

\* the final return when Step 6 is skipped
ReturnUnpublished ==
    /\ pc = "upload"
    /\ i > Len(files_to_upload)
    /\ ~PublishesManifest
    /\ Return(FinalResult(variant, files_to_upload, uploaded_files, manifest_path))
    /\ UNCHANGED <<checksum_vars, s3_scheme, publish_cmd,
                   aws_vars, cli, confirm_log, access_error,
                   variant, notFoundSignal, local, prefix, remote, dry_run, force,
                   plan_only, local_files, files_to_upload, i, uploaded_files,
                   manifest_path, raised, scanned, head_log, upload_log,
                   manifest_saved, manifest_published, console, prev>>

\* ------------------------------------------------- the sync command of cli.py
\* RESULT_MESSAGES[state]["status"]
ResultMessages(state) ==
    CASE state = "dry_run"   -> "Dry run completed"
      [] state = "cancelled" -> "Sync canceled by user"
      [] state = "completed" -> "Sync completed successfully"

\* _display_results: the state is chosen from dry_run and result.get('cancelled')
DisplayResults(r, dry) ==
    ResultMessages(IF dry THEN "dry_run"
                   ELSE IF Flag(r, "cancelled") THEN "cancelled"
                   ELSE "completed")

\* the end of the sync command of hca_ingest's cli.py: a result is displayed
\* and the command returns; an exception is printed and typer.Exit(1) raised
CliSync ==
    /\ variant = "hca_ingest"
    /\ Ended
    /\ ~cli.exited
    /\ cli' = IF pc = "raised"
              THEN [exited |-> TRUE, code |-> 1, status |-> "Sync failed"]
              ELSE [exited |-> TRUE, code |-> 0,
                    status |-> DisplayResults(result, dry_run)]
    /\ UNCHANGED <<checksum_vars, s3_scheme, publish_cmd,
                   aws_vars, confirm_log, access_error, variant, notFoundSignal, local,
                   prefix, remote, pc, dry_run, force, plan_only, local_files,
                   files_to_upload, i, uploaded_files, manifest_path, result,
                   raised, scanned, head_log, upload_log, manifest_saved,
                   manifest_published, console, prev>>

Next ==
    \/ \E d, f, p \in BOOLEAN : Sync(d, f, p)
    \/ CliSync
    \/ ValidateAccess
    \/ ScanLocalFiles
    \/ CompareStep
    \/ Plan
    \/ Confirm
    \/ GenerateManifest
    \/ UploadStep
    \/ PublishManifest
    \/ ReturnUnpublished

Spec == Init /\ [][Next]_vars

\* sync called any number of times, one call after the other
NextRerun ==
    \/ Next
    \/ \E d, f, p \in BOOLEAN : Rerun(d, f, p)

\* the calls of one session name the same s3_path; one prefix is followed
InitRerun == Init /\ prefix = <<"data", "/">>

SpecRerun == InitRerun /\ [][NextRerun]_vars

\* ------------------------------------------------- other destinations and configs
\* the prefixes of the s3_path argument, character by character: folder names
\* and slashes, in any arrangement
DestinationPrefixes ==
    UNION {[1..n -> {"data", "raw", "/"}] : n \in 0..MaxPrefixLen}

\* the configurations an engine may be built with: a profile of the
\* credentials file, no profile, a profile the credentials file does not hold
SetupConfigs ==
    [profile : {"test-profile", None, UnknownProfile}, region : {"us-east-1"}]

\* a fresh engine called on an empty bucket, the destination, the
\* configuration and the scheme of s3_path drawn from the given sets
InitWith(prefixes, configs, schemes) ==
    /\ variant \in Variants
    /\ notFoundSignal = [cls |-> "NoSuchKey", code |-> "NoSuchKey"]
    /\ local \in LocalDirs
    /\ prefix \in prefixes
    /\ remote = [k \in {S3Key(prefix, f) : f \in FileNames} |-> NoObject]
    /\ pc = "idle"
    /\ dry_run = FALSE /\ force = FALSE /\ plan_only = FALSE
    /\ local_files = <<>>
    /\ files_to_upload = <<>>
    /\ i = 1
    /\ uploaded_files = <<>>
    /\ manifest_path = None
    /\ result = NoResult
    /\ raised = NoError
    /\ access_error = NoError
    /\ scanned = FALSE
    /\ head_log = <<>>
    /\ upload_log = <<>>
    /\ manifest_saved = <<>>
    /\ manifest_published = FALSE
    /\ console = {}
    /\ confirm_log = <<>>
    /\ cli = NoCli
    /\ config \in configs
    /\ s3_client = NoClient
    /\ sessions = <<>>
    /\ returned = <<>>
    /\ s3_scheme \in schemes
    /\ publish_cmd = NoCommand
    /\ NoChecksumCall
    /\ prev = NoPrev

\* sync called with any destination prefix
InitDestination ==
    InitWith(DestinationPrefixes,
             {[profile |-> "test-profile", region |-> "us-east-1"]}, {"s3://"})

SpecDestination == InitDestination /\ [][Next]_vars

\* sync called on an engine of any configuration, with an s3_path of any scheme
InitSetup == InitWith({<<"data", "/">>}, SetupConfigs, Schemes)

SpecSetup == InitSetup /\ [][Next]_vars

\* ------------------------------------------------- a directory that changes
\* another process rewrites file f while the call runs: the file has other
\* content, of the same length
ModifyLocal(f) ==
    /\ pc \notin {"idle", "done", "raised"}
    /\ local[f].present
    /\ \E dg \in Digests \ {local[f].checksum} :
         local' = [local EXCEPT ![f].checksum = dg]
    /\ UNCHANGED <<aws_vars, checksum_vars, s3_scheme, publish_cmd, cli,
                   confirm_log, access_error, variant, notFoundSignal, prefix,
                   remote, pc, dry_run, force, plan_only, local_files,
                   files_to_upload, i, uploaded_files, manifest_path, result,
                   raised, scanned, head_log, upload_log, manifest_saved,
                   manifest_published, console, prev>>

NextConcurrent ==
    \/ Next
    \/ \E f \in FileNames : ModifyLocal(f)

InitConcurrent ==
    InitWith({<<"data", "/">>},
             {[profile |-> "test-profile", region |-> "us-east-1"]}, {"s3://"})

SpecConcurrent == InitConcurrent /\ [][NextConcurrent]_vars

\* ------------------------------------------------- a call after an aborted call
NextResume ==
    \/ Next
    \/ \E d, f, p \in BOOLEAN : Resume(d, f, p)

InitResume ==
    InitWith({<<"data", "/">>},
             {[profile |-> "test-profile", region |-> "us-east-1"]}, {"s3://"})

SpecResume == InitResume /\ [][NextResume]_vars

\* ------------------------------------------------- _upload_files called alone
\* the lists _upload_files may be given: the candidates of the files present,
\* in any order
CandidateLists ==
    {[k \in DOMAIN order |-> Candidate(LocalFileRecord(order[k]), "new")] :
        order \in ScanOrders}

\* a test calls _upload_files(files_to_upload, s3_path) on a fresh engine
InitUploadFiles ==
    /\ variant \in Variants
    /\ notFoundSignal \in NotFoundSignals
    /\ local \in LocalDirs
    /\ prefix \in Prefixes
    /\ remote \in [ObjectKeys -> RemoteChoices]
    /\ pc = "upload"
    /\ dry_run = FALSE /\ force = FALSE /\ plan_only = FALSE
    /\ local_files = <<>>
    /\ files_to_upload \in CandidateLists
    /\ i = 1
    /\ uploaded_files = <<>>
    /\ manifest_path = None
    /\ result = NoResult
    /\ raised = NoError
    /\ access_error = NoError
    /\ scanned = FALSE
    /\ head_log = <<>>
    /\ upload_log = <<>>
    /\ manifest_saved = <<>>
    /\ manifest_published = FALSE
    /\ console = {}
    /\ confirm_log = <<>>
    /\ cli = NoCli
    /\ config = [profile |-> "test-profile", region |-> "us-east-1"]
    /\ s3_client = NoClient
    /\ sessions = <<>>
    /\ returned = <<>>
    /\ s3_scheme = "s3://"
    /\ publish_cmd = NoCommand
    /\ NoChecksumCall
    /\ prev = NoPrev

\* return uploaded_files, once the for loop is through
UploadFilesReturn ==
    /\ pc = "upload"
    /\ i > Len(files_to_upload)
    /\ pc' = "returned"
    /\ result' = [uploaded_files |-> uploaded_files]
    /\ UNCHANGED <<checksum_vars, s3_scheme, publish_cmd,
                   aws_vars, cli, confirm_log, access_error,
                   variant, notFoundSignal, local, prefix, remote,
                   dry_run, force, plan_only, local_files, files_to_upload, i,
                   uploaded_files, manifest_path, raised, scanned, head_log,
                   upload_log, manifest_saved, manifest_published, console, prev>>

NextUploadFiles ==
    \/ UploadStep
    \/ UploadFilesReturn

SpecUploadFiles == InitUploadFiles /\ [][NextUploadFiles]_vars

\* ------------------------------------------------- the s3_client property alone
\* a fresh engine, SmartSync(config), for any config
InitS3Client ==
    /\ variant \in Variants
    /\ notFoundSignal = [cls |-> "NoSuchKey", code |-> "NoSuchKey"]
    /\ local = [f \in FileNames |-> NoLocal]
    /\ prefix = <<"data", "/">>
    /\ remote = [k \in ObjectKeys |-> NoObject]
    /\ pc = "idle"
    /\ dry_run = FALSE /\ force = FALSE /\ plan_only = FALSE
    /\ local_files = <<>>
    /\ files_to_upload = <<>>
    /\ i = 1
    /\ uploaded_files = <<>>
    /\ manifest_path = None
    /\ result = NoResult
    /\ raised = NoError
    /\ access_error = NoError
    /\ scanned = FALSE
    /\ head_log = <<>>
    /\ upload_log = <<>>
    /\ manifest_saved = <<>>
    /\ manifest_published = FALSE
    /\ console = {}
    /\ confirm_log = <<>>
    /\ cli = NoCli
    /\ config \in Configs
    /\ s3_client = NoClient
    /\ sessions = <<>>
    /\ returned = <<>>
    /\ s3_scheme = "s3://"
    /\ publish_cmd = NoCommand
    /\ NoChecksumCall
    /\ prev = NoPrev

sync_vars ==
    <<variant, notFoundSignal, local, prefix, remote, pc, dry_run, force,
      plan_only, local_files, files_to_upload, i, uploaded_files,
      manifest_path, result, raised, access_error, scanned, head_log,
      upload_log, manifest_saved, manifest_published, console, confirm_log,
      cli, s3_scheme, publish_cmd, prev>>

\* client = sync.s3_client
GetS3Client ==
    /\ Len(returned) < MaxReads
    /\ s3_client' = S3ClientProperty(s3_client, sessions, config).client
    /\ sessions' = S3ClientProperty(s3_client, sessions, config).sessions
    /\ returned' = Append(returned, s3_client')
    /\ UNCHANGED <<config, sync_vars, checksum_vars>>

\* sync._reset_aws_clients()
ResetAwsClients ==
    /\ s3_client' = NoClient
    /\ UNCHANGED <<config, sessions, returned, sync_vars, checksum_vars>>

\* config.aws.profile or config.aws.region is set to another value
SetConfig ==
    /\ \E cfg \in Configs \ {config} : config' = cfg
    /\ UNCHANGED <<s3_client, sessions, returned, sync_vars, checksum_vars>>

NextS3Client ==
    \/ GetS3Client
    \/ ResetAwsClients
    \/ SetConfig

SpecS3Client == InitS3Client /\ [][NextS3Client]_vars

\* ------------------------------------------------- calculate_sha256 alone
\* calculate_sha256(file_path) is called on a file of any content
InitChecksum ==
    /\ variant = "hca_smart_sync"
    /\ notFoundSignal = [cls |-> "NoSuchKey", code |-> "NoSuchKey"]
    /\ local = [f \in FileNames |-> NoLocal]
    /\ prefix = <<"data", "/">>
    /\ remote = [k \in ObjectKeys |-> NoObject]
    /\ pc = "idle"
    /\ dry_run = FALSE /\ force = FALSE /\ plan_only = FALSE
    /\ local_files = <<>>
    /\ files_to_upload = <<>>
    /\ i = 1
    /\ uploaded_files = <<>>
    /\ manifest_path = None
    /\ result = NoResult
    /\ raised = NoError
    /\ access_error = NoError
    /\ scanned = FALSE
    /\ head_log = <<>>
    /\ upload_log = <<>>
    /\ manifest_saved = <<>>
    /\ manifest_published = FALSE
    /\ console = {}
    /\ confirm_log = <<>>
    /\ cli = NoCli
    /\ config = [profile |-> "test-profile", region |-> "us-east-1"]
    /\ s3_client = NoClient
    /\ sessions = <<>>
    /\ returned = <<>>
    /\ s3_scheme = "s3://"
    /\ publish_cmd = NoCommand
    /\ file_bytes \in FileContents
    /\ file_pos = 0
    /\ sha256_hash = NewHash
    /\ hexdigest = <<>>
    /\ prev = NoPrev

\* one pass of the read loop: a chunk was read and is folded into the hash
ReadAndUpdate ==
    /\ hexdigest = <<>>
    /\ ReadChunk(file_bytes, file_pos) # <<>>
    /\ sha256_hash' = Update(sha256_hash, ReadChunk(file_bytes, file_pos))
    /\ file_pos' = file_pos + Len(ReadChunk(file_bytes, file_pos))
    /\ UNCHANGED <<file_bytes, hexdigest, aws_vars, sync_vars>>

\* the read came back empty: the loop ends and the hex digest is returned
ReturnHexDigest ==
    /\ hexdigest = <<>>
    /\ ReadChunk(file_bytes, file_pos) = <<>>
    /\ hexdigest' = HexDigest(sha256_hash)
    /\ UNCHANGED <<file_bytes, file_pos, sha256_hash, aws_vars, sync_vars>>

NextChecksum ==
    \/ ReadAndUpdate
    \/ ReturnHexDigest

SpecChecksum == InitChecksum /\ [][NextChecksum]_vars

\* =================================================================== claims
\* the candidate list holds file f with that reason
InPlan(f, reason) ==
    \E k \in DOMAIN files_to_upload :
        files_to_upload[k].filename = f /\ files_to_upload[k].reason = reason

Listed(f) == \E k \in DOMAIN files_to_upload : files_to_upload[k].filename = f

\* the record the scan of this call built for file f
Scanned(f) ==
    CHOOSE lf \in {local_files[k] : k \in DOMAIN local_files} : lf.filename = f

\* head_object answered not-found
IsNotFound(o) == ~o.ok /\ o.error \in NotFoundSignals

\* the loop of _compare_with_s3 has ended
ComparatorDone ==
    /\ pc \notin {"idle", "validate", "scan"}
    /\ ~(pc = "compare" /\ i <= Len(local_files))

\* C1: with force false, every local file whose lookup answered not-found (a
\* NoSuchKey error, or a client error with code 404 or NoSuchKey) is in the
\* candidate list with reason new.
C1_NotFoundIsNew ==
    \A k \in DOMAIN head_log :
        IsNotFound(head_log[k].answer) => InPlan(head_log[k].filename, "new")

\* C2: with force false, a local file whose remote object carries the local
\* digest but another content length is in the candidate list with reason
\* changed.
C2_SizeMismatchIsChanged ==
    \A k \in DOMAIN head_log :
        LET o == head_log[k].answer
            lf == Scanned(head_log[k].filename) IN
        (o.ok /\ o.sha256 = lf.checksum /\ o.ContentLength # lf.size)
            => InPlan(lf.filename, "changed")

\* C3: with force false, a local file whose remote object carries the local
\* digest and has the local size is left out of the candidate list.
C3_IdenticalIsOmitted ==
    \A k \in DOMAIN head_log :
        LET o == head_log[k].answer
            lf == Scanned(head_log[k].filename) IN
        (o.ok /\ o.sha256 = lf.checksum /\ o.ContentLength = lf.size)
            => ~Listed(lf.filename)

C3_Witness ==
    /\ ComparatorDone
    /\ \E k \in DOMAIN head_log :
        LET o == head_log[k].answer
            lf == Scanned(head_log[k].filename) IN
        o.ok /\ o.sha256 = lf.checksum /\ o.ContentLength = lf.size

\* C4: with force false, a local file whose remote object has no source-sha256
\* metadata, or one that differs from the local digest, is in the candidate list
\* with reason changed.
C4_MissingOrDifferingIsChanged ==
    \A k \in DOMAIN head_log :
        LET o == head_log[k].answer
            lf == Scanned(head_log[k].filename) IN
        (o.ok /\ (o.sha256 = None \/ o.sha256 # lf.checksum))
            => InPlan(lf.filename, "changed")

C4_Witness ==
    /\ ComparatorDone
    /\ \E k \in DOMAIN head_log :
         head_log[k].answer.ok /\ head_log[k].answer.sha256 = None
    /\ \E k \in DOMAIN head_log :
         /\ head_log[k].answer.ok
         /\ head_log[k].answer.sha256 \in Digests
         /\ head_log[k].answer.sha256 # Scanned(head_log[k].filename).checksum

\* C5: with force true the comparator issues no head_object call and, whatever
\* the bucket holds, returns every local file exactly once, with reason forced.
C5_ForceListsAllWithoutLookup ==
    force =>
        /\ head_log = <<>>
        /\ ComparatorDone =>
             /\ Len(files_to_upload) = Len(local_files)
             /\ \A j \in DOMAIN local_files :
                    InPlan(local_files[j].filename, "forced")

C5_Witness ==
    /\ force
    /\ ComparatorDone
    /\ Len(local_files) = 2
    /\ \E f \in FileNames :
         /\ remote[S3Key(prefix, f)].exists
         /\ remote[S3Key(prefix, f)].sha256 = local[f].checksum
         /\ remote[S3Key(prefix, f)].ContentLength = local[f].size
    /\ \E f \in FileNames : ~remote[S3Key(prefix, f)].exists

\* C6: with force false, a local file whose lookup failed with an error other
\* than not-found is in the candidate list with reason new, and the comparator
\* raises nothing.
C6_LookupErrorIsNew ==
    /\ \A k \in DOMAIN head_log :
         IsLookupError(head_log[k].answer) => InPlan(head_log[k].filename, "new")
    /\ head_log # <<>> /\ pc = "compare" => raised = NoError

C6_Witness ==
    /\ ComparatorDone
    /\ \E k \in DOMAIN head_log : head_log[k].answer.error.cls = "ClientError"
                                  /\ IsLookupError(head_log[k].answer)
    /\ \E k \in DOMAIN head_log : head_log[k].answer.error.cls = "Exception"

\* C7: whenever a lookup error other than not-found is recovered by listing the
\* file as new, the error is reported on the console.
C7_LookupErrorIsReported ==
    \A k \in DOMAIN head_log :
        IsLookupError(head_log[k].answer)
            => [ev |-> "lookup_warning", file |-> S3Key(prefix, head_log[k].filename)]
                   \in console

\* C8: if the access check fails, sync returns the access_denied result with
\* files_uploaded 0 and has scanned nothing, looked nothing up, written no
\* manifest and uploaded nothing.
C8_AccessFailureIsTerminal ==
    access_error # NoError =>
        /\ pc = "done"
        /\ Get(result, "error") = "access_denied"
        /\ Get(result, "files_uploaded") = 0
        /\ raised = NoError
        /\ ~scanned
        /\ head_log = <<>>
        /\ manifest_saved = <<>> /\ manifest_path = None
        /\ upload_log = <<>> /\ ~manifest_published

C8_Witness == access_error # NoError /\ pc = "done"

\* the call follows one with force false that completed all its uploads
AfterCompleteRun == prev.ran /\ prev.complete /\ ~prev.force

\* the all-up-to-date return of sync
ReturnedUpToDate ==
    /\ pc = "done"
    /\ local_files # <<>>
    /\ result = UpToDateResult(variant, local_files)

RemoteAnswered ==
    /\ access_error = NoError
    /\ \A k \in DOMAIN head_log : ~IsLookupError(head_log[k].answer)

Failed(k) == k \in DOMAIN upload_log /\ ~upload_log[k].ok

\* C10: once an upload has failed no later candidate is uploaded, sync raises
\* instead of returning a result, and the objects stored before the failure
\* stay in the bucket.
C10_UploadFailureAborts ==
    \A k \in DOMAIN upload_log :
        Failed(k) =>
            /\ k = Len(upload_log)
            /\ pc = "raised"
            /\ raised.cls = "CalledProcessError"
            /\ result = NoResult
            /\ ~manifest_published
            /\ \A j \in 1..(k - 1) :
                 /\ upload_log[j].ok
                 /\ remote[S3Key(prefix, upload_log[j].filename)].exists
                 /\ remote[S3Key(prefix, upload_log[j].filename)].sha256 =
                        files_to_upload[j].checksum
                 /\ remote[S3Key(prefix, upload_log[j].filename)].ContentLength =
                        files_to_upload[j].size

C10_Witness ==
    /\ Len(files_to_upload) = 2
    /\ Len(upload_log) = 2
    /\ upload_log[1].ok
    /\ Failed(2)

\* C11: an upload command is attempted only in a call that is not a dry run
\* and whose manifest file is already on disk.
C11_ManifestSavedBeforeUpload ==
    [][(upload_log' # upload_log /\ upload_log' # <<>>) =>
          /\ ~dry_run
          /\ manifest_path = ManifestPath
          /\ manifest_saved # <<>>]_vars

C11_Witness ==
    /\ Len(upload_log) = 1
    /\ manifest_saved # <<>>
    /\ manifest_path = ManifestPath

\* the names a list holds
Names(s) == {s[k] : k \in DOMAIN s}

\* C12: when an upload has failed, the manifest file on disk lists every
\* candidate of the call, the ones never uploaded too, and the manifest has not
\* been copied to the bucket.
C12_FailureLeavesFullManifest ==
    (\E k \in DOMAIN upload_log : Failed(k)) =>
        /\ manifest_path = ManifestPath
        /\ Names(manifest_saved) = Names(Filenames(files_to_upload))
        /\ Len(manifest_saved) = Len(files_to_upload)
        /\ ~manifest_published

C12_Witness ==
    /\ pc = "raised"
    /\ Failed(1)
    /\ Len(files_to_upload) = 2
    /\ Len(manifest_saved) = 2

\* the call returned the cancelled result
Cancelled == pc = "done" /\ Flag(result, "cancelled")

\* C13: the manifest is in the bucket only when every candidate was uploaded
\* with success, and never in a dry run, a plan-only call, a cancelled call, a
\* call denied access, one with no files, one with nothing to upload or one
\* aborted by an upload failure.
C13_PublishedOnlyAfterAllUploads ==
    manifest_published =>
        /\ UploadsComplete
        /\ ~dry_run
        /\ ~plan_only
        /\ ~Cancelled
        /\ access_error = NoError
        /\ local_files # <<>>
        /\ files_to_upload # <<>>
        /\ raised = NoError
        /\ \A k \in DOMAIN upload_log : ~Failed(k)

C13_Witness ==
    /\ manifest_published
    /\ Len(upload_log) = 2
    /\ pc = "done"

\* the aws s3 cp of the manifest failed
ManifestCopyFailed == [ev |-> "manifest_failed", file |-> None] \in console

\* C14: when the copy of the manifest fails after the uploads succeeded, sync
\* does not raise: it returns its normal result, which reports the uploaded
\* files.
C14_PublishFailureIsNonFatal ==
    ManifestCopyFailed =>
        /\ raised = NoError
        /\ pc = "done"
        /\ Get(result, "files_uploaded") = Len(uploaded_files)

\* the error _upload_files let out has a detail part of that kind and text
Detail(part, text) == [part |-> part, text |-> text] \in raised.detail

\* the detail names file f: on a line of its own or as the source path of the
\* command
DetailNames(f) ==
    \/ Detail("filename", f)
    \/ \E d \in raised.detail :
         d.part = "command" /\ \E n \in DOMAIN d.text : d.text[n] = f

\* C15: the error surfaced for a failed upload is a CalledProcessError with
\* the exit status of the failed command, and its detail holds the filename,
\* the stderr text of the command, the command and the exit status.
C15_UploadErrorKeepsKindAndDetail ==
    \A k \in DOMAIN upload_log :
        Failed(k) =>
            /\ raised.cls = "CalledProcessError"
            /\ raised.returncode = upload_log[k].error.returncode
            /\ DetailNames(upload_log[k].filename)
            /\ upload_log[k].error.stderr # "" =>
                   Detail("stderr", upload_log[k].error.stderr)
            /\ Detail("command", UploadCommand(files_to_upload[k]))
            /\ Detail("exit_code", upload_log[k].error.returncode)

\* C16: after an upload that succeeded, the object under the key the
\* comparator looks up for that file holds the candidate's digest as
\* source-sha256, and the upload wrote to that key.
C16_UploadSetsDigestAtComparedKey ==
    \A k \in DOMAIN upload_log :
        upload_log[k].ok =>
            /\ upload_log[k].s3_key = S3Key(prefix, files_to_upload[k].filename)
            /\ remote[S3Key(prefix, files_to_upload[k].filename)].exists
            /\ remote[S3Key(prefix, files_to_upload[k].filename)].sha256 =
                   files_to_upload[k].checksum

C16_Witness ==
    /\ Len(upload_log) = 2
    /\ upload_log[1].ok /\ upload_log[2].ok
    /\ prefix = <<"data", "/">>

\* C17: no step of a dry run saves a manifest, runs an upload, copies the
\* manifest or asks for confirmation, and none changes the bucket or the
\* directory.
C17_DryRunChangesNothing ==
    [][dry_run' =>
          /\ manifest_saved' = <<>>
          /\ manifest_path' = None
          /\ upload_log' = <<>>
          /\ ~manifest_published'
          /\ [ev |-> "confirm_asked", file |-> None] \notin console'
          /\ remote' = remote
          /\ local' = local]_vars

C17_Witness ==
    /\ dry_run
    /\ pc = "done"
    /\ Len(files_to_upload) = 2
    /\ variant = "hca_ingest"

\* a dry run that ended with at least one candidate
DryRunPlanned ==
    /\ dry_run
    /\ pc = "done"
    /\ access_error = NoError
    /\ files_to_upload # <<>>

\* s is in ascending order of filename
AscendingByFilename(s) ==
    \A j, k \in DOMAIN s : j < k => StrLess(s[j].filename, s[k].filename)

\* C18: a dry run with at least one candidate returns a result whose count of
\* uploaded files is 0 and which holds the candidates in plan order.
C18_DryRunReportsPlanAndZero ==
    DryRunPlanned =>
        /\ Get(result, "files_uploaded") = 0
        /\ "files_to_upload" \in DOMAIN result
        /\ result.files_to_upload = files_to_upload
        /\ AscendingByFilename(files_to_upload)

\* the scan of the call found no file
NoFilesScanned == scanned /\ local_files = <<>>

\* C19: when the scan finds no file, sync makes no lookup, saves no manifest
\* and runs no upload, and the result it returns carries no_files_found and a
\* count of 0.
C19_NoFilesReturnsFlag ==
    NoFilesScanned =>
        /\ head_log = <<>>
        /\ manifest_saved = <<>>
        /\ upload_log = <<>>
        /\ pc = "done" =>
             /\ Flag(result, "no_files_found")
             /\ Get(result, "files_uploaded") = 0

\* the comparator went through a non-empty scan and listed nothing
NothingToUpload ==
    /\ pc = "done"
    /\ access_error = NoError
    /\ local_files # <<>>
    /\ files_to_upload = <<>>

\* C20: when files exist and the comparator lists none, the result carries
\* all_up_to_date and differs from the result of a call that found no file.
C20_UpToDateIsFlaggedAndDistinct ==
    NothingToUpload =>
        /\ Flag(result, "all_up_to_date")
        /\ result # NoFilesResult(variant)

\* the file names of s ascend in Python's str order
NamesAscend(s) == \A j, k \in DOMAIN s : j < k => StrLess(s[j], s[k])

\* C21: the uploads of a call run in ascending str order of filename, one per
\* candidate of the plan in plan order, and the plan a dry run or a plan-only
\* call returns is in that order.
C21_UploadsAndPlanAscend ==
    /\ NamesAscend(Filenames(upload_log))
    /\ \A k \in DOMAIN upload_log :
         upload_log[k].filename = files_to_upload[k].filename
    /\ (pc = "done" /\ (dry_run \/ plan_only)
           /\ "files_to_upload" \in DOMAIN result) =>
          /\ result.files_to_upload = files_to_upload
          /\ NamesAscend(Filenames(result.files_to_upload))
    /\ (pc = "done" /\ dry_run /\ "files" \in DOMAIN result) =>
          NamesAscend(result.files)

C21_Witness ==
    /\ Len(local_files) = 2
    /\ StrLess(local_files[2].filename, local_files[1].filename)
    /\ Len(upload_log) = 2
    /\ StrLess(upload_log[1].filename, upload_log[2].filename)

\* C22: called alone on a list in any order, _upload_files runs its uploads in
\* ascending str order of filename, and returns every file of the list.
C22_UploadFilesSortsItsList ==
    /\ NamesAscend(Filenames(upload_log))
    /\ pc = "returned" =>
         /\ Len(uploaded_files) = Len(files_to_upload)
         /\ \A k \in DOMAIN files_to_upload :
              \E j \in DOMAIN uploaded_files :
                 uploaded_files[j] = files_to_upload[k]

\* the user answered no to the confirmation prompt of this call
Declined == confirm_log # <<>> /\ ~confirm_log[Len(confirm_log)]

\* C23: when the prompt is declined sync returns the cancelled result with a
\* count of 0 and raises nothing; no manifest is on disk, no upload was run
\* and no manifest was copied.
C23_DeclineIsCleanCancel ==
    Declined =>
        /\ pc = "done"
        /\ raised = NoError
        /\ Flag(result, "cancelled")
        /\ Get(result, "files_uploaded") = 0
        /\ manifest_saved = <<>>
        /\ manifest_path = None
        /\ upload_log = <<>>
        /\ ~manifest_published

C23_Witness ==
    /\ Declined
    /\ pc = "done"
    /\ Len(files_to_upload) = 2

\* the prompt is asked in this step
AsksNow == confirm_log' # confirm_log /\ confirm_log' # <<>>

\* when the prompt is asked the plan is ordered, every local file has been
\* compared, no manifest exists yet, and the call has a candidate and is
\* neither a dry run nor forced
AskedAtItsPlace ==
    AsksNow =>
        /\ files_to_upload # <<>>
        /\ NamesAscend(Filenames(files_to_upload))
        /\ i = 1 /\ upload_log = <<>>
        /\ force \/ Len(head_log) = Len(local_files)
        /\ manifest_saved = <<>> /\ manifest_path = None
        /\ ~dry_run /\ ~force

\* the call has a candidate, is neither a dry run nor forced, and is past the
\* plan
PastPlanUnforced ==
    /\ files_to_upload' # <<>>
    /\ ~dry_run' /\ ~force' /\ ~plan_only'
    /\ pc' \in {"manifest", "upload", "raised", "done"}

\* C24 as stated: the prompt is asked at most once, at its place, and if and
\* only if the call has a candidate and is neither a dry run nor forced.
C24_AskedIffUnforcedPlan ==
    [][/\ Len(confirm_log') <= 1
       /\ AskedAtItsPlace
       /\ PastPlanUnforced => Len(confirm_log') = 1]_vars

\* C24 amended: the prompt is asked at most once, at its place, and only if
\* the call has a candidate and is neither a dry run nor forced; sync of
\* hca_ingest asks in every such call, sync of hca_smart_sync never asks.
C24_AskedOnlyIfUnforcedPlan ==
    [][/\ Len(confirm_log') <= 1
       /\ AskedAtItsPlace
       /\ (variant = "hca_ingest" /\ PastPlanUnforced) => Len(confirm_log') = 1
       /\ variant = "hca_smart_sync" => confirm_log' = <<>>]_vars

C24_Witness ==
    /\ confirm_log = <<TRUE>>
    /\ manifest_saved # <<>>
    /\ Len(files_to_upload) = 2

\* the access check of this call is over and passed
AccessPassed == pc \notin {"idle", "validate"} /\ access_error = NoError

\* the comparator went through every local file of the scan
AllCompared ==
    /\ scanned
    /\ IF force THEN Len(files_to_upload) = Len(local_files)
                ELSE Len(head_log) = Len(local_files)

\* C25: each stage starts only when the one before it is over: a lookup only
\* after the access check passed and the scan ran, the manifest only after
\* every local file was compared and the plan ordered, an upload only after
\* the manifest was written, the copy of the manifest only after the uploads.
C25_StagesGateEachOther ==
    [][/\ (head_log' # head_log /\ head_log' # <<>>) =>
             AccessPassed /\ scanned
       /\ (scanned' /\ ~scanned) => AccessPassed
       /\ (manifest_saved' # manifest_saved /\ manifest_saved' # <<>>) =>
             /\ AccessPassed /\ AllCompared
             /\ NamesAscend(Filenames(files_to_upload))
             /\ upload_log = <<>>
       /\ (upload_log' # upload_log /\ upload_log' # <<>>) =>
             /\ AllCompared
             /\ manifest_saved # <<>> /\ manifest_path = ManifestPath
             /\ ~manifest_published
       /\ (manifest_published' /\ ~manifest_published) =>
             UploadsComplete]_vars

C25_Witness ==
    /\ manifest_published
    /\ Len(head_log) = 2
    /\ Len(upload_log) = 2

\* the call ended in a failure: access denied, or an exception left sync
SyncFailed ==
    \/ pc = "raised"
    \/ pc = "done" /\ Get(result, "error") = "access_denied"

\* C26: the command exits non-zero, and does not print 'Sync completed
\* successfully', when sync was denied access or raised; it exits 0 for every
\* other outcome.
C26_ExitStatusTellsFailure ==
    cli.exited =>
        IF SyncFailed
        THEN cli.code # 0 /\ cli.status # "Sync completed successfully"
        ELSE cli.code = 0

\* the property s3_client is read in this step
ReadsNow == returned' # returned

\* C27: no client exists until the property is first read; a read with no
\* client kept makes one session and client from the config of that moment
\* and keeps it; a read with a client kept returns that client and makes none;
\* _reset_aws_clients drops the client and makes none.
C27_ClientIsLazyAndCached ==
    [][/\ returned' = <<>> => (s3_client' = NoClient /\ sessions' = <<>>)
       /\ (ReadsNow /\ s3_client = NoClient) =>
             /\ Len(sessions') = Len(sessions) + 1
             /\ sessions'[Len(sessions')] = config
             /\ s3_client'.profile = config.profile
             /\ s3_client'.region = config.region
             /\ \A k \in DOMAIN returned : returned[k] # s3_client'
             /\ returned'[Len(returned')] = s3_client'
       /\ (ReadsNow /\ s3_client # NoClient) =>
             /\ sessions' = sessions
             /\ s3_client' = s3_client
             /\ returned'[Len(returned')] = s3_client
       /\ ~ReadsNow => sessions' = sessions]_vars

C27_Witness ==
    /\ Len(returned) = 3
    /\ returned[1] = returned[2]
    /\ returned[3] # returned[2]
    /\ returned[3].profile # returned[2].profile
    /\ Len(sessions) = 2

\* the local files the comparator classified identical in this call
ClassifiedIdentical ==
    {head_log[k].filename : k \in {j \in DOMAIN head_log :
        head_log[j].answer.ok
        /\ IsIdentical(head_log[j].answer,
                       LocalFileRecord(head_log[j].filename))}}

\* C28: the manifest a call wrote has one entry per candidate of the plan, no
\* entry twice, and none for a file classified identical.
C28_ManifestCoversExactlyThePlan ==
    manifest_saved # <<>> =>
        /\ Names(manifest_saved) = Names(Filenames(files_to_upload))
        /\ Len(manifest_saved) = Len(files_to_upload)
        /\ \A j, k \in DOMAIN manifest_saved :
               manifest_saved[j] = manifest_saved[k] => j = k
        /\ Names(manifest_saved) \cap ClassifiedIdentical = {}

C28_Witness ==
    /\ Len(manifest_saved) = 1
    /\ Len(local_files) = 2
    /\ ClassifiedIdentical # {}

\* C29: when the build of the manifest fails, no manifest is on disk, whole or
\* partial, and the call runs no upload and copies no manifest.
C29_FailedBuildWritesNothing ==
    raised = ManifestError =>
        /\ pc = "raised"
        /\ manifest_saved = <<>>
        /\ manifest_path = None
        /\ upload_log = <<>>
        /\ ~manifest_published
        /\ result = NoResult

C29_Witness ==
    /\ raised = ManifestError
    /\ Len(files_to_upload) = 2

\* C30: the entries of the manifest ascend in natural order of filename,
\* whatever the order of the plan.
C30_ManifestInNaturalOrder ==
    \A j, k \in DOMAIN manifest_saved :
        j < k => NaturalLess(manifest_saved[j], manifest_saved[k])

C30_Witness ==
    /\ manifest_saved = <<"file2.h5ad", "file10.h5ad">>
    /\ Filenames(files_to_upload) = <<"file10.h5ad", "file2.h5ad">>

\* C31: the digest calculate_sha256 returns, reading the file chunk by chunk, is
\* the digest of the whole content hashed in one pass, whatever the length: a
\* chunk, one byte less, one byte more, several chunks.
C31_ChunkedDigestIsWholeDigest ==
    hexdigest # <<>> => hexdigest = Sha256(file_bytes)

C31_Witness ==
    /\ hexdigest # <<>>
    /\ Len(file_bytes) = MaxChunks * ChunkSize + 1
    /\ file_pos = Len(file_bytes)
    /\ \E k \in DOMAIN file_bytes : file_bytes[k] # file_bytes[1]

\* the destination tree without its last path segment: the characters of s up
\* to and with its last slash
RECURSIVE DropLastSegment(_)
DropLastSegment(s) ==
    IF s = <<>> \/ s[Len(s)] = "/" THEN s
    ELSE DropLastSegment(SubSeq(s, 1, Len(s) - 1))

\* C38: the manifest is copied to the destination tree with its last path
\* segment replaced by manifests, in the same bucket and under the manifest's
\* file name; with a prefix of one segment or none that is s3://bucket/manifests/.
C38_ManifestGoesToSiblingManifests ==
    publish_cmd # NoCommand =>
        /\ publish_cmd.dest =
              <<"s3://", Bucket, "/">> \o DropLastSegment(RStrip(prefix))
                  \o <<"manifests", "/", ManifestPath>>
        /\ (\A k \in DOMAIN RStrip(prefix) : RStrip(prefix)[k] # "/")
              => publish_cmd.dest =
                     <<"s3://", Bucket, "/", "manifests", "/", ManifestPath>>

C38_Witness ==
    /\ publish_cmd # NoCommand
    /\ manifest_published
    /\ prefix = <<"data", "/", "raw">>

\* the access check of this call met a failure: a path of another scheme, a
\* failing list or locate call, or a client that cannot be made
AccessCheckFailed ==
    /\ pc \notin {"idle", "validate"}
    /\ \/ s3_scheme # "s3://"
       \/ access_error \in AccessErrors
       \/ SessionRaises(config)

\* C35: whatever fails in the access check (a destination that does not start
\* with s3://, a failing list or locate call, a client that cannot be made for
\* an unknown profile), _validate_s3_access returns False without raising and
\* sync returns the access_denied result.
C35_AccessCheckNeverRaises ==
    AccessCheckFailed =>
        /\ raised = NoError
        /\ pc = "done"
        /\ result = AccessDeniedResult

\* the command names a profile
HasProfileOption(cmd) ==
    \E k \in DOMAIN cmd.options : cmd.options[k] = "--profile"

\* C39: the command that publishes the manifest carries the profile option only
\* when a profile is configured, as the data upload command does, and none of
\* its arguments is absent: without a profile, a call whose uploads all
\* succeeded runs the publication command.
C39_PublishProfileOnlyIfConfigured ==
    publish_cmd # NoCommand =>
        /\ HasProfileOption(publish_cmd) <=> config.profile # None
        /\ \A k \in DOMAIN publish_cmd.options : publish_cmd.options[k] # None
        /\ raised # ArgumentError

\* C32: a local file is missing from the comparator's candidate list only if
\* its lookup succeeded and returned a stored digest equal to the local one: no
\* file is dropped on a lookup error or a not-found answer, and none is listed
\* twice.
C32_OnlyIdenticalIsDropped ==
    ComparatorDone =>
        /\ \A j \in DOMAIN local_files :
             ~Listed(local_files[j].filename) =>
                 \E k \in DOMAIN head_log :
                     /\ head_log[k].filename = local_files[j].filename
                     /\ head_log[k].answer.ok
                     /\ head_log[k].answer.sha256 = local_files[j].checksum
        /\ \A a, b \in DOMAIN files_to_upload :
             files_to_upload[a].filename = files_to_upload[b].filename => a = b

\* sync returned from a full run: neither dry run nor plan only nor cancelled,
\* with at least one candidate
FullRunReturned ==
    /\ pc = "done"
    /\ ~dry_run /\ ~plan_only
    /\ ~Flag(result, "cancelled")
    /\ files_to_upload # <<>>

\* C34: a full run that returns has uploaded every candidate: files_uploaded is
\* the number of candidates and files their names in upload order; no result
\* counts some but not all of the candidates.
C34_FullRunUploadsEveryCandidate ==
    FullRunReturned =>
        /\ "files" \in DOMAIN result
        /\ result.files_uploaded = Len(files_to_upload)
        /\ result.files = Filenames(files_to_upload)
        /\ result.files = [k \in DOMAIN upload_log |-> upload_log[k].filename]
        /\ \A k \in DOMAIN upload_log : upload_log[k].ok

C34_Witness ==
    /\ FullRunReturned
    /\ Len(files_to_upload) = 2
    /\ result.files_uploaded = 2

\* C37: with plan_only and not dry_run, sync returns the ordered plan with
\* files_uploaded 0 and no manifest path, and has written no manifest and run
\* no upload or publication command; with dry_run as well the result is the
\* dry-run result.
C37_PlanOnlyReturnsThePlanAlone ==
    plan_only =>
        /\ manifest_saved = <<>> /\ manifest_path = None
        /\ upload_log = <<>>
        /\ ~manifest_published /\ publish_cmd = NoCommand
        /\ raised = NoError
        /\ (pc = "done" /\ files_to_upload # <<>>) =>
             /\ NamesAscend(Filenames(files_to_upload))
             /\ "files_to_upload" \in DOMAIN result
             /\ result.files_to_upload = files_to_upload
             /\ result.files_uploaded = 0
             /\ result.manifest_path = None
             /\ IF dry_run
                THEN Flag(result, "dry_run") /\ "plan_only" \notin DOMAIN result
                ELSE Flag(result, "plan_only") /\ "dry_run" \notin DOMAIN result

C37_Witness ==
    /\ plan_only /\ ~dry_run
    /\ pc = "done"
    /\ Len(files_to_upload) = 2
    /\ Flag(result, "plan_only")

\* the call follows one that was aborted by the failed upload of a candidate
AfterAbortedRun == prev.ran /\ "pending" \in DOMAIN prev

\* this call's comparator went through every local file
ComparedAll ==
    /\ ComparatorDone
    /\ access_error = NoError
    /\ scanned

\* C33: a call with force false that follows a call aborted by the failed
\* upload of its k-th candidate has as candidates the k-th and later candidates
\* of that call and none of those it uploaded, also when the failed transfer
\* left a truncated object that carries the matching source-sha256 metadata.
C33_SecondRunResumesAtFailure ==
    (AfterAbortedRun /\ ~force /\ ComparedAll) =>
        Names(Filenames(files_to_upload)) = prev.pending

\* C36: every object an upload of sync stored carries as source-sha256 the
\* digest of the content stored, also when another process rewrites the local
\* file between the scan and the upload.
C36_MetadataIsDigestOfStoredContent ==
    \A k \in DOMAIN upload_log :
        upload_log[k].ok =>
            remote[upload_log[k].s3_key].sha256 = upload_log[k].content

====
